---- MODULE Spec2Model ----
(***************************************************************************)
(* Image upload / proxy gateway (src/app.py).                              *)
(*                                                                         *)
(* Strings that the code splits, trims or concatenates (file names,        *)
(* folders, object names, URL paths) are sequences of tokens in which "/"  *)
(* and "." are tokens of their own.  The three backends (object store,     *)
(* embedding inference, database) are capabilities whose outcome is chosen *)
(* nondeterministically at each call.  Each gunicorn worker serves one     *)
(* request at a time; an upload is one step per blocking backend call.     *)
(***************************************************************************)
EXTENDS Integers, Sequences, FiniteSets, TLC

\* ------------------------------------------------------------------ bounds
MaxRequests == 2
\* requests one client sends to one worker process within a rate-limit window
MaxHits == 52

\* --------------------------------------------------------------- constants
None == "None"
Workers == {"w1", "w2"}

MAX_CONTENT_LENGTH == 16 * 1024 * 1024
ALLOWED_EXTENSIONS == {"png", "jpg", "jpeg", "gif", "webp", "bmp", "svg"}
OCI_BUCKET == "chatbot-images"
RATELIMIT_STORAGE_URL == "memory://"
\* @limiter.limit("50 per minute") on serve_image
IMG_LIMIT == 50

\* ------------------------------------------------------------ input sets
Small == [bytes |-> "small", len |-> 3]
AtMax == [bytes |-> "atmax", len |-> MAX_CONTENT_LENGTH]
Large == [bytes |-> "large", len |-> MAX_CONTENT_LENGTH + 1]
NoFile == [bytes |-> "", len |-> 0]
EmbeddingBatches == {<<>>, <<"v1">>, <<"v1", "v2">>}
FaultStatuses == {404, 500}

\* variant: the generated name is not unique
UuidHex_fixed(n) == "u1"
\* uuid.uuid4().hex : a fresh token per call
UuidHex(n) == <<"u1", "u2", "u3", "u4", "u5", "u6">>[n]

VARIABLES oci_client, store, img_embeddings, pc, req, loc, calls, resp, nreq, uuids,
          hits, admitted

vars == <<oci_client, store, img_embeddings, pc, req, loc, calls, resp, nreq, uuids,
          hits, admitted>>

\* ------------------------------------------------------- string helpers
Lower(s) == IF s = "PNG" THEN "png" ELSE s

RECURSIVE LStrip(_)
LStrip(s) == IF s # <<>> /\ Head(s) = "/" THEN LStrip(Tail(s)) ELSE s
RECURSIVE RStrip(_)
RStrip(s) == IF s # <<>> /\ s[Len(s)] = "/" THEN RStrip(SubSeq(s, 1, Len(s) - 1)) ELSE s
\* str.strip('/')
Strip(s) == RStrip(LStrip(s))

HasDot(s) == \E i \in 1..Len(s) : s[i] = "."
LastDot(s) == CHOOSE i \in 1..Len(s) : s[i] = "." /\ \A j \in (i+1)..Len(s) : s[j] # "."
\* variant: filename.split('.')[1], the part after the first dot
SplitFirstExt(s) ==
    LET first == CHOOSE i \in 1..Len(s) : s[i] = "." /\ \A j \in 1..(i-1) : s[j] # "."
        rest == SubSeq(s, first + 1, Len(s))
    IN  IF HasDot(rest)
        THEN SubSeq(rest, 1, (CHOOSE i \in 1..Len(rest) :
                                 rest[i] = "." /\ \A j \in 1..(i-1) : rest[j] # ".") - 1)
        ELSE rest
\* filename.rsplit('.', 1)[1]
RSplitExt(s) == SubSeq(s, LastDot(s) + 1, Len(s))
LowerSeq(s) == [i \in 1..Len(s) |-> Lower(s[i])]

allowed_file(filename) ==
    IF filename = <<>> \/ ~HasDot(filename) THEN FALSE
    ELSE LET extension == LowerSeq(RSplitExt(filename))
         IN  Len(extension) = 1 /\ extension[1] \in ALLOWED_EXTENSIONS

\* mimetypes.guess_type(filename)[0]
GuessType(filename) ==
    LET e == LowerSeq(RSplitExt(filename))
    IN  IF e = <<"png">> THEN "image/png"
        ELSE IF e = <<"gif">> THEN "image/gif"
        ELSE None

\* ------------------------------------------------------------ responses
NoData == [object_name |-> <<>>, bucket |-> "", proxy_url |-> <<>>, file_size |-> 0,
           content_type |-> "", embedding_saved |-> FALSE]
NoResp == [status |-> 0, route |-> "", error |-> "", content |-> NoFile, mimetype |-> "",
           filename |-> <<>>, data |-> NoData, location |-> <<>>]
JsonError(route, status, msg) == [NoResp EXCEPT !.status = status, !.route = route, !.error = msg]

NoReq == [route |-> "", path |-> <<>>, has_file |-> FALSE, filename |-> <<>>, file |-> NoFile,
          part_content_type |-> None, bucket |-> None, folder |-> <<>>, declared |-> FALSE]
NoLoc == [bucket |-> "", object_name |-> <<>>, content_type |-> "", raw |-> NoFile,
          file_size |-> 0, embedding |-> None]

Call(op, ok, status, vec, text) == [op |-> op, ok |-> ok, status |-> status, vec |-> vec, text |-> text]

\* ------------------------------------------------------ object store client
\* variant: only the client handle is tested
is_connected_client_only == oci_client.client
is_connected == oci_client.client /\ oci_client.namespace

Key(o) == <<o.bucket, o.name>>
Stored(bucket, name) == {o \in store : Key(o) = <<bucket, name>>}

\* ----------------------------------------------------------------- Init
Init ==
    /\ oci_client \in { [client |-> FALSE, namespace |-> FALSE],
                        [client |-> TRUE, namespace |-> FALSE],
                        [client |-> TRUE, namespace |-> TRUE] }
    /\ store = {}
    /\ img_embeddings = <<>>
    /\ pc = [w \in Workers |-> "idle"]
    /\ req = [w \in Workers |-> NoReq]
    /\ loc = [w \in Workers |-> NoLoc]
    /\ calls = [w \in Workers |-> <<>>]
    /\ resp = [w \in Workers |-> NoResp]
    /\ nreq = 0
    /\ uuids = 0
    /\ hits = [c \in Workers \cup {"shared"} |-> 0]
    /\ admitted = 0

\* ------------------------------------------------------ backend outcomes
Ok == [kind |-> "ok", status |-> 200, text |-> ""]
ServiceError(status) ==
    [kind |-> "ServiceError", status |-> status, text |-> "backend: bucket ocid and tenancy detail"]
OtherException == [kind |-> "Exception", status |-> 0, text |-> "backend: socket timeout"]
Faults == {ServiceError(s) : s \in FaultStatuses} \cup {OtherException}

\* what the object store can answer to get_object(bucket, name)
GetOutcomes(bucket, name) ==
    (IF Stored(bucket, name) # {} THEN {Ok} ELSE {ServiceError(404)})
        \cup {ServiceError(500), OtherException}
PutOutcomes == {Ok} \cup Faults

\* ------------------------------------------------------------ POST /upload
\* the multipart body is longer than the file it carries
BodyLength(r) == IF r.has_file THEN r.file.len + 1 ELSE 1

\* app.config MAX_CONTENT_LENGTH: reading request.files raises
\* RequestEntityTooLarge when the body exceeds the limit.  With a
\* Content-Length header every build enforces it; for a chunked body the
\* enforcement depends on the build (enforced).
FrameworkRejects(r, enforced) ==
    BodyLength(r) > MAX_CONTENT_LENGTH /\ (r.declared \/ enforced)

\* lines 500-522: the response of a rejected upload, NoResp when it passes
Validate(r, enforced) ==
    IF ~is_connected THEN JsonError("upload", 500, "OCI connection error")
    ELSE IF FrameworkRejects(r, enforced) THEN JsonError("upload", 500, "upload failed")
    ELSE IF ~r.has_file THEN JsonError("upload", 400, "no file selected")
    ELSE IF r.filename = <<>> THEN JsonError("upload", 400, "empty file name")
    ELSE IF ~allowed_file(r.filename) THEN JsonError("upload", 400, "file type not allowed")
    ELSE IF r.file.len > MAX_CONTENT_LENGTH THEN JsonError("upload", 400, "file too large")
    ELSE NoResp

ObjectName(folder, unique_filename) ==
    IF folder # <<>> THEN Strip(folder) \o <<"/">> \o unique_filename ELSE unique_filename

ContentType(r) ==
    IF r.part_content_type # None THEN r.part_content_type
    ELSE IF GuessType(r.filename) # None THEN GuessType(r.filename)
    ELSE "image/png"

\* lines 525-530
Derive(r, token) ==
    [bucket |-> IF r.bucket # None THEN r.bucket ELSE OCI_BUCKET,
     object_name |-> ObjectName(r.folder, <<token, ".">> \o LowerSeq(RSplitExt(r.filename))),
     content_type |-> ContentType(r),
     raw |-> r.file,
     file_size |-> r.file.len,
     embedding |-> None]

ProxyUrl(bucket, object_name) == <<"/", "img", "/", bucket, "/">> \o object_name

\* variant: the flag reports a written record
EmbeddingSaved_recorded(l) ==
    \E i \in 1..Len(img_embeddings) :
        img_embeddings[i].bucket = l.bucket /\ img_embeddings[i].object_name = l.object_name
EmbeddingSaved(l) == l.embedding # None

UploadOk(l) ==
    [NoResp EXCEPT !.status = 200, !.route = "upload",
        !.data = [object_name |-> l.object_name, bucket |-> l.bucket,
                  proxy_url |-> ProxyUrl(l.bucket, l.object_name),
                  file_size |-> l.file_size, content_type |-> l.content_type,
                  embedding_saved |-> EmbeddingSaved(l)]]

\* the multipart requests a client sends: a plain upload and its variations
Plain ==
    [route |-> "upload", path |-> <<"/", "upload">>, has_file |-> TRUE,
     filename |-> <<"a", ".", "png">>, file |-> Small, part_content_type |-> None,
     bucket |-> None, folder |-> <<>>, declared |-> TRUE]
ValidUploads ==
    { Plain,
      [Plain EXCEPT !.filename = <<"a", ".", "PNG">>, !.folder = <<"/">>, !.bucket = "b1",
                    !.part_content_type = "image/gif"],
      [Plain EXCEPT !.filename = <<"a", ".", "webp">>, !.folder = <<"/", "a", "/", "b", "/">>],
      [Plain EXCEPT !.folder = <<"a">>, !.bucket = "b1"],
      [Plain EXCEPT !.file = AtMax, !.declared = FALSE] }
InvalidUploads ==
    { [NoReq EXCEPT !.route = "upload", !.path = <<"/", "upload">>, !.declared = TRUE],
      [Plain EXCEPT !.filename = <<>>],
      [Plain EXCEPT !.filename = <<"a">>],
      [Plain EXCEPT !.filename = <<"a", ".", "exe">>],
      [Plain EXCEPT !.filename = <<"a", ".", "png", ".", "exe">>, !.folder = <<"a">>],
      [Plain EXCEPT !.file = AtMax],
      [Plain EXCEPT !.file = Large],
      [Plain EXCEPT !.file = Large, !.declared = FALSE],
      [Plain EXCEPT !.filename = <<"a", ".", "exe">>, !.file = Large],
      [Plain EXCEPT !.filename = <<"a", ".", "exe">>, !.file = Large, !.declared = FALSE] }
UploadRequests == ValidUploads \cup InvalidUploads

UploadStart(w) ==
    /\ pc[w] = "idle"
    /\ nreq < MaxRequests
    /\ \E r \in UploadRequests, enforced \in BOOLEAN :
         LET rejected == Validate(r, enforced) IN
         /\ r.declared => enforced
         /\ nreq' = nreq + 1
         /\ req' = [req EXCEPT ![w] = r]
         /\ calls' = [calls EXCEPT ![w] = <<>>]
         /\ IF rejected # NoResp
            THEN /\ resp' = [resp EXCEPT ![w] = rejected]
                 /\ loc' = [loc EXCEPT ![w] = NoLoc]
                 /\ UNCHANGED <<pc, uuids>>
            ELSE /\ resp' = [resp EXCEPT ![w] = NoResp]
                 /\ uuids' = uuids + 1
                 /\ loc' = [loc EXCEPT ![w] = Derive(r, UuidHex(uuids + 1))]
                 /\ pc' = [pc EXCEPT ![w] = "embed"]
    /\ UNCHANGED <<oci_client, store, img_embeddings, hits, admitted>>

\* lines 534-544: _embed_image_with_cohere_v4([data_uri]) inside try/except
FirstOrNone(embeddings) == IF embeddings # <<>> THEN embeddings[1] ELSE None

Embed(w) ==
    /\ pc[w] = "embed"
    /\ \/ \E embeddings \in EmbeddingBatches :
            /\ loc' = [loc EXCEPT ![w].embedding = FirstOrNone(embeddings)]
            /\ calls' = [calls EXCEPT ![w] =
                            Append(@, Call("embed", TRUE, 200, FirstOrNone(embeddings), ""))]
       \/ /\ loc' = [loc EXCEPT ![w].embedding = None]
          /\ calls' = [calls EXCEPT ![w] =
                          Append(@, Call("embed", FALSE, 0, None, OtherException.text))]
    /\ pc' = [pc EXCEPT ![w] = "put"]
    /\ UNCHANGED <<oci_client, store, img_embeddings, req, resp, nreq, uuids, hits, admitted>>

\* variant: content_type is not passed on to the backend
PutResult_untyped(bucket, object_name, data, content_type) ==
    {o \in store : Key(o) # <<bucket, object_name>>}
        \cup {[bucket |-> bucket, name |-> object_name, data |-> data,
               content_type |-> "application/octet-stream"]}
\* OCIClient.put_object: the backend replaces whatever the key held
PutResult(bucket, object_name, data, content_type) ==
    {o \in store : Key(o) # <<bucket, object_name>>}
        \cup {[bucket |-> bucket, name |-> object_name, data |-> data, content_type |-> content_type]}

\* lines 578-583
UploadFailure(fault) ==
    IF fault.kind = "ServiceError" THEN JsonError("upload", 500, "upload failed (OCI error)")
    ELSE JsonError("upload", 500, "upload failed")

\* variant: the recorder runs unconditionally
NeedsSave_always(l) == TRUE
\* lines 554-555: the recorder runs only with a vector
NeedsSave(l) == l.embedding # None

\* variant: a put_object failure is swallowed like an embedding failure
AfterPut_swallowed(l, result) == IF NeedsSave(l) THEN "save" ELSE "idle"
\* variant: a failed put_object is retried
AfterPut_retry(l, result) ==
    IF result # Ok THEN "put" ELSE IF NeedsSave(l) THEN "save" ELSE "idle"
\* where the handler goes after put_object: an exception leaves the try block
AfterPut(l, result) == IF result = Ok /\ NeedsSave(l) THEN "save" ELSE "idle"

\* lines 546-552, then 561-576 when there is nothing to record
PutObject(w) ==
    /\ pc[w] = "put"
    /\ \E out \in PutOutcomes :
         LET l == loc[w]
             result == IF is_connected THEN out ELSE OtherException IN
         /\ calls' = [calls EXCEPT ![w] =
                         Append(@, Call("put", result = Ok, result.status, None, result.text))]
         /\ store' = IF result = Ok
                     THEN PutResult(l.bucket, l.object_name, l.raw, l.content_type)
                     ELSE store
         /\ pc' = [pc EXCEPT ![w] = AfterPut(l, result)]
         /\ resp' = [resp EXCEPT ![w] =
                        IF AfterPut(l, result) # "idle" THEN NoResp
                        ELSE IF result = Ok THEN UploadOk(l)
                        ELSE UploadFailure(result)]
    /\ UNCHANGED <<oci_client, img_embeddings, req, loc, nreq, uuids, hits, admitted>>

\* _save_embedding_to_db: one INSERT and a commit, or an exception
Row(l) == [bucket |-> l.bucket, object_name |-> l.object_name, content_type |-> l.content_type,
           file_size |-> l.file_size, embedding |-> l.embedding]

\* variant: the insert is executed twice
InsertRow_twice(table, row) == Append(Append(table, row), row)
\* INSERT INTO img_embeddings ... ; conn.commit()
InsertRow(table, row) == Append(table, row)

\* lines 555-576
SaveEmbedding(w) ==
    /\ pc[w] = "save"
    /\ \E ok \in BOOLEAN :
         /\ calls' = [calls EXCEPT ![w] =
                         Append(@, Call("save", ok, 0, loc[w].embedding,
                                        IF ok THEN "" ELSE OtherException.text))]
         /\ img_embeddings' = IF ok THEN InsertRow(img_embeddings, Row(loc[w])) ELSE img_embeddings
    /\ resp' = [resp EXCEPT ![w] = UploadOk(loc[w])]
    /\ pc' = [pc EXCEPT ![w] = "idle"]
    /\ UNCHANGED <<oci_client, store, req, loc, nreq, uuids, hits, admitted>>

\* ------------------------------------------------- GET /img/<bucket>/<path:obj>
\* the URL rule: <bucket> is one segment, <path:obj> is non-empty and does
\* not begin with a slash
MatchImgRoute(path) ==
    /\ Len(path) >= 6
    /\ SubSeq(path, 1, 3) = <<"/", "img", "/">>
    /\ path[4] # "/"
    /\ path[5] = "/"
    /\ path[6] # "/"
RouteBucket(path) == path[4]
RouteObj(path) == SubSeq(path, 6, Len(path))

RECURSIVE MergeSlashes(_)
MergeSlashes(path) ==
    IF Len(path) < 2 THEN path
    ELSE IF path[1] = "/" /\ path[2] = "/" THEN MergeSlashes(Tail(path))
    ELSE <<path[1]>> \o MergeSlashes(Tail(path))

\* obj.split("/")[-1]
RECURSIVE LastSegment(_)
LastSegment(obj) ==
    IF \E i \in 1..Len(obj) : obj[i] = "/"
    THEN LastSegment(Tail(obj)) ELSE obj

GetContentType(o) == IF o.content_type # None THEN o.content_type ELSE "image/jpeg"

\* variant: every backend fault is a 500
ServeFailure_flat(fault) ==
    IF fault.kind = "ServiceError" THEN JsonError("img", 500, "OCI service error")
    ELSE JsonError("img", 500, "image fetch failed")
\* lines 486-495
ServeFailure(fault) ==
    IF fault.kind = "ServiceError"
    THEN IF fault.status = 404 THEN JsonError("img", 404, "image not found")
         ELSE JsonError("img", 500, "OCI service error")
    ELSE JsonError("img", 500, "image fetch failed")

\* lines 466-485
ServeResponse(bucket, obj, out) ==
    IF out = Ok
    THEN LET o == CHOOSE x \in Stored(bucket, obj) : TRUE IN
         [NoResp EXCEPT !.status = 200, !.route = "img", !.content = o.data,
                        !.mimetype = GetContentType(o), !.filename = LastSegment(obj)]
    ELSE ServeFailure(out)

BogusPath == <<"/", "img", "/", "b1", "/", "nokey", ".", "png">>
GetPaths ==
    {resp[v].data.proxy_url : v \in {x \in Workers : resp[x].status = 200 /\ resp[x].route = "upload"}}
        \cup {BogusPath}

GetRequest(path) == [NoReq EXCEPT !.route = "img", !.path = path]

ServeImage(w) ==
    /\ pc[w] = "idle"
    /\ nreq < MaxRequests
    /\ \E path \in GetPaths :
         /\ nreq' = nreq + 1
         /\ req' = [req EXCEPT ![w] = GetRequest(path)]
         /\ loc' = [loc EXCEPT ![w] = NoLoc]
         /\ IF ~MatchImgRoute(path)
            THEN \* routing layer: redirect to the merged path, or not_found
                 /\ calls' = [calls EXCEPT ![w] = <<>>]
                 /\ resp' = [resp EXCEPT ![w] =
                       IF MatchImgRoute(MergeSlashes(path))
                       THEN [NoResp EXCEPT !.status = 308, !.route = "redirect",
                                           !.location = MergeSlashes(path)]
                       ELSE JsonError("not_found", 404, "endpoint not found")]
            ELSE IF ~is_connected
            THEN /\ calls' = [calls EXCEPT ![w] = <<>>]
                 /\ resp' = [resp EXCEPT ![w] = JsonError("img", 500, "OCI connection error")]
            ELSE \E out \in GetOutcomes(RouteBucket(path), RouteObj(path)) :
                 /\ calls' = [calls EXCEPT ![w] =
                                 <<Call("get", out = Ok, out.status, None, out.text)>>]
                 /\ resp' = [resp EXCEPT ![w] =
                                 ServeResponse(RouteBucket(path), RouteObj(path), out)]
    /\ UNCHANGED <<oci_client, store, img_embeddings, pc, uuids, hits, admitted>>

\* ------------------------------------------------------------ GET /health
\* variant: the probe tests only the client handle
HealthStatus_client_only == IF oci_client.client THEN 200 ELSE 503
\* line 592
HealthStatus == IF is_connected THEN 200 ELSE 503

\* lines 585-592
HealthCheck(w) ==
    /\ pc[w] = "idle"
    /\ nreq < MaxRequests
    /\ nreq' = nreq + 1
    /\ req' = [req EXCEPT ![w] = [NoReq EXCEPT !.route = "health", !.path = <<"/", "health">>]]
    /\ loc' = [loc EXCEPT ![w] = NoLoc]
    /\ calls' = [calls EXCEPT ![w] = <<>>]
    /\ resp' = [resp EXCEPT ![w] = [NoResp EXCEPT !.status = HealthStatus, !.route = "health"]]
    /\ UNCHANGED <<oci_client, store, img_embeddings, pc, uuids, hits, admitted>>

\* ------------------------------------------------------------ rate limiter
\* the counter a worker process consults for the client's key: memory://
\* keeps it inside the process, any other storage is shared by the processes
CounterStore(w) == IF RATELIMIT_STORAGE_URL = "memory://" THEN w ELSE "shared"

\* Limiter(...) and @limiter.limit("50 per minute") around serve_image, for
\* the requests of one client (get_remote_address) within one window: the
\* hit is counted, and the handler runs only while the count is within the limit
LimitedServeImage(w) ==
    /\ pc[w] = "idle"
    /\ hits[CounterStore(w)] < MaxHits
    /\ hits' = [hits EXCEPT ![CounterStore(w)] = @ + 1]
    /\ req' = [req EXCEPT ![w] = GetRequest(BogusPath)]
    /\ loc' = [loc EXCEPT ![w] = NoLoc]
    /\ IF hits[CounterStore(w)] + 1 > IMG_LIMIT
       THEN /\ resp' = [resp EXCEPT ![w] = JsonError("limiter", 429, "rate limit exceeded")]
            /\ calls' = [calls EXCEPT ![w] = <<>>]
            /\ UNCHANGED admitted
       ELSE /\ admitted' = admitted + 1
            /\ IF ~is_connected
               THEN /\ calls' = [calls EXCEPT ![w] = <<>>]
                    /\ resp' = [resp EXCEPT ![w] = JsonError("img", 500, "OCI connection error")]
               ELSE \E out \in GetOutcomes(RouteBucket(BogusPath), RouteObj(BogusPath)) :
                    /\ calls' = [calls EXCEPT ![w] =
                                    <<Call("get", out = Ok, out.status, None, out.text)>>]
                    /\ resp' = [resp EXCEPT ![w] =
                                    ServeResponse(RouteBucket(BogusPath), RouteObj(BogusPath), out)]
    /\ UNCHANGED <<oci_client, store, img_embeddings, pc, nreq, uuids>>

NextLimiter == \E w \in Workers : LimitedServeImage(w)

\* several worker processes serving one client within one window
SpecLimiter == Init /\ [][NextLimiter]_vars

Next ==
    \/ \E w \in Workers : UploadStart(w)
    \/ \E w \in Workers : Embed(w)
    \/ \E w \in Workers : PutObject(w)
    \/ \E w \in Workers : SaveEmbedding(w)
    \/ \E w \in Workers : ServeImage(w)
    \/ \E w \in Workers : HealthCheck(w)

Spec == Init /\ [][Next]_vars

\* =================================================================== claims
Done(w) == pc[w] = "idle" /\ resp[w].status # 0
IsUpload(w) == req[w].route = "upload"
IsGet(w) == req[w].route = "img"
Made(w, op) == {i \in 1..Len(calls[w]) : calls[w][i].op = op}
PutFailed(w) == \E i \in Made(w, "put") : ~calls[w][i].ok
PutSucceeded(w) == \E i \in Made(w, "put") : calls[w][i].ok
EmbedRaised(w) == \E i \in Made(w, "embed") : ~calls[w][i].ok
VectorProduced(w) == \E i \in Made(w, "embed") : calls[w][i].ok /\ calls[w][i].vec # None
SaveFailed(w) == \E i \in Made(w, "save") : ~calls[w][i].ok
SaveSucceeded(w) == \E i \in Made(w, "save") : calls[w][i].ok
\* a GET whose backend call hit a transient fault (anything but found / not found)
GetFaulted(w) == \E i \in Made(w, "get") : calls[w][i].status \notin {200, 404}
RowsFor(bucket, name) ==
    {i \in 1..Len(img_embeddings) :
        img_embeddings[i].bucket = bucket /\ img_embeddings[i].object_name = name}
\* the startup connection was established: a client and a namespace exist
Established == oci_client.client /\ oci_client.namespace
\* the filename ends in ".<ext>" with <ext>, lower-cased, on the allow-list
HasAllowedExtension(fn) ==
    /\ Len(fn) >= 2
    /\ fn[Len(fn) - 1] = "."
    /\ Lower(fn[Len(fn)]) \in ALLOWED_EXTENSIONS
\* error texts carried by backend exceptions (str(e), e.message)
BackendTexts == {f.text : f \in Faults}
\* completed GETs of the proxy path an upload's response gave, answered by the backend
GetsOf(w) ==
    {v \in Workers : /\ Done(v) /\ IsGet(v)
                     /\ req[v].path = resp[w].data.proxy_url
                     /\ ~GetFaulted(v)}

\* C1: when put_object of an upload fails, the upload is answered 500 and
\* _save_embedding_to_db is never invoked for it (no call, no row), with or
\* without a computed vector.
C1_PutFailureAborts ==
    \A w \in Workers :
        PutFailed(w) =>
            /\ Done(w)
            /\ resp[w].status = 500
            /\ Made(w, "save") = {}
            /\ RowsFor(loc[w].bucket, loc[w].object_name) = {}
C1_Witness ==
    \E w \in Workers : PutFailed(w) /\ VectorProduced(w) /\ Done(w) /\ resp[w].status = 500

\* C2: when the embedding call raises in an otherwise valid upload, the upload
\* is answered 200 with embedding_saved = false, the object is in the store,
\* and a later GET on the returned proxy path retrieves it.
C2_EmbedFailureStillRetrievable ==
    \A w \in Workers :
        (IsUpload(w) /\ EmbedRaised(w) /\ PutSucceeded(w)) =>
            /\ Done(w)
            /\ resp[w].status = 200
            /\ resp[w].data.embedding_saved = FALSE
            /\ Stored(loc[w].bucket, loc[w].object_name) # {}
            /\ \A v \in GetsOf(w) : resp[v].status = 200 /\ resp[v].content = req[w].file

\* C3: for every valid upload, proxy_url is /img/{bucket}/{object_name} and a
\* later GET on that path returns the uploaded bytes with the stored Content-Type.
C3_ProxyRoundTrip ==
    \A w \in Workers :
        (IsUpload(w) /\ Done(w) /\ resp[w].status = 200) =>
            /\ resp[w].data.proxy_url =
                  <<"/", "img", "/", resp[w].data.bucket, "/">> \o resp[w].data.object_name
            /\ \A v \in GetsOf(w) :
                  /\ resp[v].status = 200
                  /\ resp[v].content = req[w].file
                  /\ resp[v].mimetype = resp[w].data.content_type

\* C4 (as claimed): every upload whose filename has no allow-listed extension
\* is answered 400 and causes no object-store write.
C4_DisallowedIs400 ==
    \A w \in Workers :
        (IsUpload(w) /\ Done(w) /\ req[w].has_file /\ ~HasAllowedExtension(req[w].filename)) =>
            resp[w].status = 400 /\ Made(w, "put") = {}
\* C4 (amended): an upload whose filename has no allow-listed extension never
\* reaches a backend (no embedding, put_object or recorder call); it is
\* answered 400 when the store is connected and the body is within
\* MAX_CONTENT_LENGTH, 500 when the store is not connected, and 400 or 500
\* (never anything else) for an over-limit body on a connected store.
C4_DisallowedNeverStored ==
    \A w \in Workers :
        (IsUpload(w) /\ req[w].has_file /\ ~HasAllowedExtension(req[w].filename)) =>
            /\ Done(w)
            /\ calls[w] = <<>>
            /\ resp[w].status \in {400, 500}
            /\ (Established /\ BodyLength(req[w]) <= MAX_CONTENT_LENGTH) => resp[w].status = 400
            /\ ~Established => resp[w].status = 500
C4_Witness ==
    \E w \in Workers :
        /\ IsUpload(w) /\ Done(w)
        /\ req[w].filename = <<"a", ".", "png", ".", "exe">>
        /\ resp[w].status = 400

\* C5: every upload over the size ceiling is answered 400 before any call to
\* the embedding or storage backends (stated for a connected store; the
\* unconnected store is C9's case).
C5_OversizeIs400 ==
    \A w \in Workers :
        (Established /\ IsUpload(w) /\ Done(w) /\ req[w].file.len > MAX_CONTENT_LENGTH) =>
            resp[w].status = 400 /\ calls[w] = <<>>

\* C6: the recorder is called only with the vector the embedding call of the
\* same upload returned, never with None; after a raised or empty-batch
\* embedding call it is not called at all.
C6_RecorderOnlyWithVector ==
    \A w \in Workers :
        /\ \A i \in Made(w, "save") :
              /\ calls[w][i].vec # None
              /\ \E j \in Made(w, "embed") :
                    j < i /\ calls[w][j].ok /\ calls[w][j].vec = calls[w][i].vec
        /\ (\E j \in Made(w, "embed") : calls[w][j].vec = None) => Made(w, "save") = {}
C6_Witness ==
    \E w, v \in Workers :
        /\ Made(w, "save") # {}
        /\ Done(v) /\ resp[v].status = 200
        /\ \E j \in Made(v, "embed") : calls[v][j].ok /\ calls[v][j].vec = None

\* C7: when a vector was computed, put_object succeeded and the metadata
\* insert failed, the upload is still answered 200 with embedding_saved = true;
\* in every 200 answer embedding_saved says whether a vector was computed.
C7_SavedFlagMeansVectorComputed ==
    \A w \in Workers :
        /\ SaveFailed(w) =>
              Done(w) /\ resp[w].status = 200 /\ resp[w].data.embedding_saved = TRUE
        /\ (IsUpload(w) /\ Done(w) /\ resp[w].status = 200) =>
              (resp[w].data.embedding_saved <=> VectorProduced(w))
C7_Witness ==
    \E w \in Workers :
        /\ SaveFailed(w) /\ Done(w) /\ resp[w].data.embedding_saved
        /\ RowsFor(loc[w].bucket, loc[w].object_name) = {}

\* C8 (as claimed): every upload whose put_object succeeded and whose embedding
\* was produced ends with exactly one metadata record for its object key.
C8_ExactlyOneRecord ==
    \A w \in Workers :
        (IsUpload(w) /\ Done(w) /\ PutSucceeded(w) /\ VectorProduced(w)) =>
            Cardinality(RowsFor(loc[w].bucket, loc[w].object_name)) = 1
\* C8 (amended): such an upload ends with exactly one record if the insert
\* succeeded and with none if it failed; no key ever has two records, and the
\* table only grows by appending (no record is updated or deleted).
C8_RecordCount ==
    /\ \A w \in Workers :
          (IsUpload(w) /\ Done(w) /\ PutSucceeded(w) /\ VectorProduced(w)) =>
              Cardinality(RowsFor(loc[w].bucket, loc[w].object_name)) =
                  IF SaveSucceeded(w) THEN 1 ELSE 0
    /\ \A i \in 1..Len(img_embeddings) :
          Cardinality(RowsFor(img_embeddings[i].bucket, img_embeddings[i].object_name)) = 1
C8_AppendOnly ==
    /\ Len(img_embeddings') >= Len(img_embeddings)
    /\ SubSeq(img_embeddings', 1, Len(img_embeddings)) = img_embeddings
C8_AtMostOneRecord == [](C8_RecordCount) /\ [][C8_AppendOnly]_vars
C8_Witness ==
    \E w \in Workers :
        /\ Done(w) /\ SaveSucceeded(w)
        /\ Cardinality(RowsFor(loc[w].bucket, loc[w].object_name)) = 1

\* C9: with the object store not connected, a routed GET /img is answered 500
\* without a fetch and POST /upload is answered 500 without any embedding,
\* put_object or recorder call.
C9_NotConnectedIs500 ==
    ~Established =>
        /\ store = {} /\ img_embeddings = <<>>
        /\ \A w \in Workers :
              /\ calls[w] = <<>>
              /\ pc[w] = "idle"
              /\ (Done(w) /\ (IsUpload(w) \/ (IsGet(w) /\ MatchImgRoute(req[w].path)))) =>
                    resp[w].status = 500
C9_Witness ==
    /\ ~Established
    /\ \E w, v \in Workers :
          /\ IsUpload(w) /\ Done(w) /\ resp[w].status = 500
          /\ IsGet(v) /\ Done(v) /\ resp[v].status = 500

\* C10: a GET whose backend call reports 404 is answered 404 with the generic
\* "image not found" body; any other backend fault is answered 500; no
\* response carries the text of a backend error.
C10_ProxyErrorMapping ==
    \A w \in Workers :
        /\ (IsGet(w) /\ Done(w)) =>
              \A i \in Made(w, "get") :
                  /\ calls[w][i].status = 404 =>
                        resp[w].status = 404 /\ resp[w].error = "image not found"
                  /\ (~calls[w][i].ok /\ calls[w][i].status # 404) => resp[w].status = 500
                  /\ ~calls[w][i].ok => resp[w].content = NoFile
        /\ resp[w].error \notin BackendTexts
C10_Witness ==
    \E w, v \in Workers :
        /\ IsGet(w) /\ Done(w) /\ resp[w].status = 404
        /\ \E i \in Made(w, "get") : calls[w][i].status = 404
        /\ IsGet(v) /\ Done(v) /\ resp[v].status = 500 /\ Made(v, "get") # {}

\* C11: the connectivity state never changes after startup, whatever requests
\* run (failing get/put calls included), and every GET /health answers 200
\* when the connection was established and 503 when it was not.
C11_HealthFollowsStartup ==
    \A w \in Workers :
        (Done(w) /\ req[w].route = "health") =>
            resp[w].status = IF Established THEN 200 ELSE 503
C11_ConnectivityFixed ==
    [](C11_HealthFollowsStartup) /\ [][oci_client' = oci_client]_vars
C11_Witness ==
    \E w, v \in Workers :
        /\ Done(w) /\ req[w].route = "health" /\ resp[w].status = 200
        /\ PutFailed(v)

\* C12: with several worker processes serving one client, the GET /img
\* requests admitted for that client within one window never exceed the
\* 50-per-minute limit.
C12_WindowLimitHolds == admitted <= IMG_LIMIT

\* C13: within one upload the steps run in the order validate, embed, store,
\* record, respond, none retried: each backend is called at most once,
\* put_object only after the embedding attempt, the insert only after a
\* successful put_object, no backend call before validation passed, and the
\* response only once the handler is finished; the handler never steps back.
C13_CallsInOrder ==
    \A w \in Workers :
        IsUpload(w) =>
            /\ \A op \in {"embed", "put", "save"} : Cardinality(Made(w, op)) <= 1
            /\ Made(w, "get") = {}
            /\ \A i \in Made(w, "put") : \E j \in Made(w, "embed") : j < i
            /\ \A i \in Made(w, "save") : \E j \in Made(w, "put") : j < i /\ calls[w][j].ok
            /\ (calls[w] # <<>> \/ pc[w] # "idle") =>
                  /\ Established
                  /\ req[w].has_file
                  /\ HasAllowedExtension(req[w].filename)
                  /\ req[w].file.len <= MAX_CONTENT_LENGTH
            /\ resp[w].status # 0 => pc[w] = "idle"
            /\ pc[w] = "embed" => calls[w] = <<>>
            /\ pc[w] = "put" => Len(calls[w]) = 1
            /\ pc[w] = "save" => Len(calls[w]) = 2
C13_Forward ==
    \A w \in Workers :
        \/ pc'[w] = pc[w]
        \/ <<pc[w], pc'[w]>> \in { <<"idle", "embed">>, <<"embed", "put">>, <<"put", "save">>,
                                   <<"put", "idle">>, <<"save", "idle">> }
C13_StrictSequence == [](C13_CallsInOrder) /\ [][C13_Forward]_vars
C13_Witness ==
    \E w \in Workers :
        /\ IsUpload(w) /\ Done(w) /\ Len(calls[w]) = 3
        /\ calls[w][1].op = "embed" /\ calls[w][2].op = "put" /\ calls[w][3].op = "save"

\* C14: the generated object key is {folder/}{random-hex}.{ext} with the
\* folder trimmed of leading and trailing slashes and the extension
\* lower-cased; it never begins with a slash, and with no folder or a folder
\* that is empty after trimming it is just {random-hex}.{ext}.
C14_KeyShape ==
    \A w \in Workers :
        (IsUpload(w) /\ loc[w].object_name # <<>>) =>
            LET fn == req[w].filename
                trimmed == Strip(req[w].folder)
                prefix == IF trimmed = <<>> THEN <<>> ELSE trimmed \o <<"/">>
            IN  /\ loc[w].object_name[1] # "/"
                /\ \E n \in 1..6 :
                      loc[w].object_name = prefix \o <<UuidHex(n), ".", Lower(fn[Len(fn)])>>

\* C15: a stored object is never deleted or overwritten: the set of stored
\* objects only grows, and every upload whose put_object succeeded keeps its
\* object, bytes and content type, also after a failed metadata insert.
C15_ObjectKept ==
    \A w \in Workers :
        (IsUpload(w) /\ PutSucceeded(w)) =>
            Stored(loc[w].bucket, loc[w].object_name) =
                {[bucket |-> loc[w].bucket, name |-> loc[w].object_name,
                  data |-> req[w].file, content_type |-> loc[w].content_type]}
C15_Grows == \A o \in store : o \in store'
C15_StoredImmutable == [](C15_ObjectKept) /\ [][C15_Grows]_vars
C15_Witness ==
    /\ Cardinality(store) = 2
    /\ \E w \in Workers : SaveFailed(w) /\ Done(w)

\* C16: under any interleaving of concurrent uploads, every metadata record's
\* (bucket, object key) names an object that is in the object store, with
\* the content type and size of that object.
C16_RecordsReferToObjects ==
    \A i \in 1..Len(img_embeddings) :
        \E o \in store :
            /\ o.bucket = img_embeddings[i].bucket
            /\ o.name = img_embeddings[i].object_name
            /\ o.content_type = img_embeddings[i].content_type
            /\ o.data.len = img_embeddings[i].file_size
C16_Witness ==
    /\ Len(img_embeddings) = 1
    /\ \E w, v \in Workers : SaveSucceeded(w) /\ pc[w] = "idle" /\ pc[v] = "save"

====
